---------------------------- MODULE Spec2Model ----------------------------
(***************************************************************************)
(* Model of the clin-summ reporting scripts: dashboard.py,                 *)
(* view_results.py, compare_results.py and simple_metrics.py.              *)
(*                                                                         *)
(* A text is a sequence of one-character strings, so that lower(), split() *)
(* and the substring test `in` are computed character by character as      *)
(* Python computes them.  A record of a JSON-Lines file is a function from *)
(* the keys it carries to texts.  A float quotient a / b is kept as the    *)
(* exact fraction [num |-> a, den |-> b]; a division by zero raises.       *)
(***************************************************************************)
EXTENDS Integers, Sequences, FiniteSets, TLC

(***************************************************************************)
(* Bounds.                                                                 *)
(***************************************************************************)
MaxSamples == 2
MaxPhrases == 3
MaxRuns == 2

(***************************************************************************)
(* Fixed vocabularies of dashboard.py.                                     *)
(***************************************************************************)
conditions ==
    << <<"p","n","e","u","m","o","n","i","a">>,
       <<"e","d","e","m","a">>,
       <<"e","f","f","u","s","i","o","n">>,
       <<"c","o","n","s","o","l","i","d","a","t","i","o","n">>,
       <<"a","t","e","l","e","c","t","a","s","i","s">>,
       <<"c","a","r","d","i","o","m","e","g","a","l","y">>,
       <<"p","n","e","u","m","o","t","h","o","r","a","x">>,
       <<"n","o","d","u","l","e">>,
       <<"m","a","s","s">>,
       <<"f","r","a","c","t","u","r","e">>,
       <<"i","n","f","i","l","t","r","a","t","e">>,
       <<"o","p","a","c","i","t","y">>,
       <<"c","a","l","c","i","f","i","c","a","t","i","o","n">>,
       <<"g","r","a","n","u","l","o","m","a">>,
       <<"e","m","p","h","y","s","e","m","a">>,
       <<"h","y","p","e","r","t","e","n","s","i","o","n">>,
       <<"d","i","a","b","e","t","e","s">>,
       <<"a","s","t","h","m","a">>,
       <<"c","o","p","d">>,
       <<"c","a","n","c","e","r">> >>

anatomy ==
    << <<"h","e","a","r","t">>,
       <<"l","u","n","g">>,
       <<"c","h","e","s","t">>,
       <<"c","a","r","d","i","a","c">>,
       <<"p","u","l","m","o","n","a","r","y">>,
       <<"m","e","d","i","a","s","t","i","n","a","l">>,
       <<"p","l","e","u","r","a","l">>,
       <<"t","h","o","r","a","x">>,
       <<"r","i","g","h","t">>,
       <<"l","e","f","t">>,
       <<"u","p","p","e","r">>,
       <<"l","o","w","e","r">>,
       <<"l","o","b","e">> >>

status ==
    << <<"n","o","r","m","a","l">>,
       <<"a","b","n","o","r","m","a","l">>,
       <<"a","c","u","t","e">>,
       <<"c","h","r","o","n","i","c">>,
       <<"s","t","a","b","l","e">>,
       <<"i","m","p","r","o","v","e","d">>,
       <<"w","o","r","s","e","n","e","d">>,
       <<"n","e","g","a","t","i","v","e">>,
       <<"p","o","s","i","t","i","v","e">>,
       <<"c","l","e","a","r">>,
       <<"u","n","r","e","m","a","r","k","a","b","l","e">> >>

MedicationWords ==
    << <<"m","e","d","i","c","a","t","i","o","n">>,
       <<"d","r","u","g">>,
       <<"p","i","l","l">>,
       <<"p","r","e","s","c","r","i","p","t","i","o","n">> >>

PainWords ==
    << <<"p","a","i","n">>,
       <<"h","u","r","t">>,
       <<"a","c","h","e">> >>

TreatmentWords ==
    << <<"t","r","e","a","t","m","e","n","t">>,
       <<"t","h","e","r","a","p","y">>,
       <<"c","u","r","e">> >>

SideEffectWords ==
    << <<"s","i","d","e"," ","e","f","f","e","c","t">>,
       <<"a","d","v","e","r","s","e">>,
       <<"r","e","a","c","t","i","o","n">> >>

DiagnosisWords ==
    << <<"t","e","s","t">>,
       <<"d","i","a","g","n","o","s","i","s">>,
       <<"s","c","r","e","e","n">> >>

NormalPhrases ==
    << <<"n","o"," ","a","c","u","t","e">>,
       <<"n","o","r","m","a","l">>,
       <<"n","e","g","a","t","i","v","e">> >>

(***************************************************************************)
(* Texts the sample files are drawn from.                                  *)
(***************************************************************************)
T_empty ==
    <<>>

T_blank ==
    <<" "," ">>

T_c3 ==
    <<"R","i","g","h","t"," ","l","o","w","e","r"," ","l","o","b","e"," ","c","o","n","s","o","l",
      "i","d","a","t","i","o","n",","," ","n","o"," ","p","n","e","u","m","o","t","h","o","r","a",
      "x">>

T_normal ==
    <<"N","o"," ","a","c","u","t","e"," ","c","a","r","d","i","o","p","u","l","m","o","n","a","r",
      "y"," ","a","b","n","o","r","m","a","l","i","t","y">>

T_abnormal ==
    <<"R","i","g","h","t"," ","u","p","p","e","r"," ","l","o","b","e"," ","m","a","s","s"," ","s",
      "u","s","p","i","c","i","o","u","s"," ","f","o","r"," ","m","a","l","i","g","n","a","n","c",
      "y">>

T_many ==
    <<"P","n","e","u","m","o","n","i","a"," ","e","d","e","m","a"," ","e","f","f","u","s","i","o",
      "n"," ","c","o","n","s","o","l","i","d","a","t","i","o","n"," ","a","t","e","l","e","c","t",
      "a","s","i","s"," ","c","a","r","d","i","o","m","e","g","a","l","y"," ","p","n","e","u","m",
      "o","t","h","o","r","a","x"," ","n","o","d","u","l","e"," ","m","a","s","s"," ","f","r","a",
      "c","t","u","r","e"," ","i","n","f","i","l","t","r","a","t","e"," ","h","e","a","r","t"," ",
      "l","u","n","g"," ","c","h","e","s","t"," ","c","a","r","d","i","a","c"," ","p","u","l","m",
      "o","n","a","r","y"," ","m","e","d","i","a","s","t","i","n","a","l"," ","p","l","e","u","r",
      "a","l"," ","r","i","g","h","t"," ","l","e","f","t"," ","u","p","p","e","r"," ","s","t","a",
      "b","l","e"," ","i","m","p","r","o","v","e","d"," ","w","o","r","s","e","n","e","d"," ","p",
      "o","s","i","t","i","v","e"," ","c","l","e","a","r"," ","c","h","r","o","n","i","c">>

T_question ==
    <<"W","h","a","t"," ","m","e","d","i","c","a","t","i","o","n"," ","h","e","l","p","s"," ","c",
      "h","e","s","t"," ","p","a","i","n","?">>

T_question2 ==
    <<"I","s"," ","a"," ","t","e","s","t"," ","n","e","e","d","e","d"," ","f","o","r"," ","a","n",
      " ","a","d","v","e","r","s","e"," ","r","e","a","c","t","i","o","n"," ","t","o"," ","t","h",
      "e","r","a","p","y">>

T_punct ==
    <<"F","i","n","d","i","n","g"," ",":","m","a","s","s",","," ","s","t","a","b","l","e",".">>

(***************************************************************************)
(* Python string and list primitives.                                      *)
(***************************************************************************)
ToLower ==
    ("A" :> "a") @@ ("B" :> "b") @@ ("C" :> "c") @@ ("D" :> "d") @@ ("E" :> "e") @@
    ("F" :> "f") @@ ("G" :> "g") @@ ("H" :> "h") @@ ("I" :> "i") @@ ("J" :> "j") @@
    ("K" :> "k") @@ ("L" :> "l") @@ ("M" :> "m") @@ ("N" :> "n") @@ ("O" :> "o") @@
    ("P" :> "p") @@ ("Q" :> "q") @@ ("R" :> "r") @@ ("S" :> "s") @@ ("T" :> "t") @@
    ("U" :> "u") @@ ("V" :> "v") @@ ("W" :> "w") @@ ("X" :> "x") @@ ("Y" :> "y") @@
    ("Z" :> "z")

\* str.lower()
lower(text) ==
    [i \in 1..Len(text) |-> IF text[i] \in DOMAIN ToLower THEN ToLower[text[i]] ELSE text[i]]

\* the substring test `needle in hay`
contains(needle, hay) ==
    \E i \in 1..(Len(hay) - Len(needle) + 1) :
        \A j \in 1..Len(needle) : hay[i + j - 1] = needle[j]

Whitespace == {" ", "\t", "\n"}

\* str.split() with no separator: the maximal runs of non-whitespace characters
split(text) ==
    LET IsStart(i) == /\ text[i] \notin Whitespace
                      /\ (i = 1 \/ text[i - 1] \in Whitespace)
        IsEnd(j)   == /\ text[j] \notin Whitespace
                      /\ (j = Len(text) \/ text[j + 1] \in Whitespace)
        starts     == SelectSeq([i \in 1..Len(text) |-> i], IsStart)
        EndOf(i)   == CHOOSE j \in i..Len(text) :
                          IsEnd(j) /\ \A k \in i..j : text[k] \notin Whitespace
    IN  [k \in 1..Len(starts) |-> SubSeq(text, starts[k], EndOf(starts[k]))]

\* dict.get(key, default)
get(sample, key, default) ==
    IF key \in DOMAIN sample THEN sample[key] ELSE default

RECURSIVE sum(_)
\* the builtin sum() over a list of integers
sum(list) ==
    IF list = <<>> THEN 0 ELSE Head(list) + sum(Tail(list))

RECURSIVE extend(_)
\* the list built by calling list.extend() with each element of `lists` in turn
extend(lists) ==
    IF lists = <<>> THEN <<>> ELSE Head(lists) \o extend(Tail(lists))

\* int / int and float / float: the quotient, or ZeroDivisionError
Quotient(n, d) == [ok |-> TRUE, num |-> n, den |-> d]
ZeroDivisionError == [ok |-> FALSE, num |-> 0, den |-> 1]
TrueDiv(a, b) ==
    IF b = 0 THEN ZeroDivisionError ELSE Quotient(a, b)
FloatDiv(x, y) ==
    IF y.num = 0 THEN ZeroDivisionError ELSE Quotient(x.num * y.den, x.den * y.num)

RECURSIVE Counter(_)
\* collections.Counter(list): the elements are counted one after the other into
\* a dict, which keeps its keys in the order they were first inserted
Counter(list) ==
    IF list = <<>>
    THEN <<>>
    ELSE LET counts == Counter(SubSeq(list, 1, Len(list) - 1))
             elem   == list[Len(list)]
             seen   == {k \in 1..Len(counts) : counts[k][1] = elem}
         IN  IF seen = {}
             THEN Append(counts, <<elem, 1>>)
             ELSE LET k == CHOOSE k \in seen : TRUE
                  IN  SubSeq(counts, 1, k - 1) \o << <<elem, counts[k][2] + 1>> >>
                          \o SubSeq(counts, k + 1, Len(counts))

RECURSIVE sorted_by_count(_)
\* sorted(items, key=count, reverse=True): descending count, and items of
\* equal count in the order they have in `items` (the sort is stable)
sorted_by_count(items) ==
    IF items = <<>>
    THEN <<>>
    ELSE LET front == sorted_by_count(SubSeq(items, 1, Len(items) - 1))
             last  == items[Len(items)]
             p     == Cardinality({k \in 1..Len(front) : front[k][2] >= last[2]})
         IN  SubSeq(front, 1, p) \o <<last>> \o SubSeq(front, p + 1, Len(front))

\* as most_common, but called without its argument: every entry is returned
most_common_all(counter, n) == sorted_by_count(counter)

\* Counter.most_common(n) is heapq.nlargest(n, items, key=count), which returns
\* sorted(items, key=count, reverse=True)[:n]
most_common(counter, n) ==
    LET sorted == sorted_by_count(counter)
    IN  SubSeq(sorted, 1, IF n < Len(sorted) THEN n ELSE Len(sorted))

\* a list slice list[:n]
slice(list, n) == SubSeq(list, 1, IF n < Len(list) THEN n ELSE Len(list))

(***************************************************************************)
(* dashboard.py                                                            *)
(***************************************************************************)
\* as extract_medical_terms, but matching whole words of the text instead of
\* substrings
extract_medical_terms_whole_words(text) ==
    LET words == {split(lower(text))[k] : k \in 1..Len(split(lower(text)))}
    IN  [conditions |-> SelectSeq(conditions, LAMBDA c : c \in words),
         anatomy    |-> SelectSeq(anatomy, LAMBDA a : a \in words),
         status     |-> SelectSeq(status, LAMBDA s : s \in words)]

\* as extract_medical_terms, but matching the text as written instead of its
\* lowercase form
extract_medical_terms_case_sensitive(text) ==
    [conditions |-> SelectSeq(conditions, LAMBDA c : contains(c, text)),
     anatomy    |-> SelectSeq(anatomy, LAMBDA a : contains(a, text)),
     status     |-> SelectSeq(status, LAMBDA s : contains(s, text))]

extract_medical_terms(text) ==
    LET text_lower == lower(text)
    IN  [conditions |-> SelectSeq(conditions, LAMBDA c : contains(c, text_lower)),
         anatomy    |-> SelectSeq(anatomy, LAMBDA a : contains(a, text_lower)),
         status     |-> SelectSeq(status, LAMBDA s : contains(s, text_lower))]

\* any(word in text for word in words)
any_in(words, text) == \E k \in 1..Len(words) : contains(words[k], text)

Returned(value) == [raised |-> "none", value |-> value]
Raised(exception) == [raised |-> exception, value |-> [none |-> TRUE]]

\* as is_normal, but the three tests joined by `and` instead of `or`
is_normal_all_phrases(imp) ==
    \A k \in 1..Len(NormalPhrases) : contains(NormalPhrases[k], lower(imp))

\* the test that counts an impression as normal:
\* 'no acute' in imp.lower() or 'normal' in imp.lower() or 'negative' in imp.lower()
is_normal(imp) == any_in(NormalPhrases, lower(imp))

analyze_radiology_reports(samples) ==
    LET all_findings    == [i \in 1..Len(samples) |-> get(samples[i], "inputs", <<>>)]
        all_impressions == [i \in 1..Len(samples) |-> get(samples[i], "target", <<>>)]
        terms == [i \in 1..Len(samples) |->
                    extract_medical_terms(all_findings[i] \o <<" ">> \o all_impressions[i])]
        all_conditions == extend([i \in 1..Len(samples) |-> terms[i].conditions])
        all_anatomy    == extend([i \in 1..Len(samples) |-> terms[i].anatomy])
        all_status     == extend([i \in 1..Len(samples) |-> terms[i].status])
        normal_count   == Cardinality({i \in 1..Len(samples) : is_normal(all_impressions[i])})
        avg_finding_len ==
            TrueDiv(sum([i \in 1..Len(samples) |-> Len(split(all_findings[i]))]),
                    Len(all_findings))
        avg_impression_len ==
            TrueDiv(sum([i \in 1..Len(samples) |-> Len(split(all_impressions[i]))]),
                    Len(all_impressions))
    IN  IF ~avg_finding_len.ok \/ ~avg_impression_len.ok
        THEN Raised("ZeroDivisionError")
        ELSE Returned(
               [total      |-> Len(samples),
                normal     |-> normal_count,
                abnormal   |-> Len(all_impressions) - normal_count,
                conditions |-> most_common(Counter(all_conditions), 10),
                anatomy    |-> most_common(Counter(all_anatomy), 10),
                status     |-> most_common(Counter(all_status), 5),
                avg_finding_len    |-> avg_finding_len,
                avg_impression_len |-> avg_impression_len])

\* the topics one question is tagged with, in the order of the five tests
topics_of(question) ==
    LET question_lower == lower(question)
    IN  (IF any_in(MedicationWords, question_lower) THEN <<"Medication">> ELSE <<>>)
        \o (IF any_in(PainWords, question_lower) THEN <<"Pain">> ELSE <<>>)
        \o (IF any_in(TreatmentWords, question_lower) THEN <<"Treatment">> ELSE <<>>)
        \o (IF any_in(SideEffectWords, question_lower) THEN <<"Side Effects">> ELSE <<>>)
        \o (IF any_in(DiagnosisWords, question_lower) THEN <<"Diagnosis">> ELSE <<>>)

\* as analyze_health_questions, but total counts the topics found instead of
\* the samples
analyze_health_questions_total_topics(samples) ==
    LET all_questions == [i \in 1..Len(samples) |-> get(samples[i], "inputs", <<>>)]
        all_summaries == [i \in 1..Len(samples) |-> get(samples[i], "target", <<>>)]
        topics == extend([i \in 1..Len(samples) |-> topics_of(all_questions[i])])
        avg_question_len ==
            TrueDiv(sum([i \in 1..Len(samples) |-> Len(split(all_questions[i]))]),
                    Len(all_questions))
        avg_summary_len ==
            TrueDiv(sum([i \in 1..Len(samples) |-> Len(split(all_summaries[i]))]),
                    Len(all_summaries))
    IN  IF ~avg_question_len.ok \/ ~avg_summary_len.ok
        THEN Raised("ZeroDivisionError")
        ELSE Returned(
               [total  |-> Len(topics),
                topics |-> most_common(Counter(topics), 5),
                avg_question_len |-> avg_question_len,
                avg_summary_len  |-> avg_summary_len])

analyze_health_questions(samples) ==
    LET all_questions == [i \in 1..Len(samples) |-> get(samples[i], "inputs", <<>>)]
        all_summaries == [i \in 1..Len(samples) |-> get(samples[i], "target", <<>>)]
        topics == extend([i \in 1..Len(samples) |-> topics_of(all_questions[i])])
        avg_question_len ==
            TrueDiv(sum([i \in 1..Len(samples) |-> Len(split(all_questions[i]))]),
                    Len(all_questions))
        avg_summary_len ==
            TrueDiv(sum([i \in 1..Len(samples) |-> Len(split(all_summaries[i]))]),
                    Len(all_summaries))
    IN  IF ~avg_question_len.ok \/ ~avg_summary_len.ok
        THEN Raised("ZeroDivisionError")
        ELSE Returned(
               [total  |-> Len(samples),
                topics |-> most_common(Counter(topics), 5),
                avg_question_len |-> avg_question_len,
                avg_summary_len  |-> avg_summary_len])

(***************************************************************************)
(* The records a sample file is made of, and the files of at most          *)
(* MaxSamples records.                                                     *)
(***************************************************************************)
RecordPool ==
    { [inputs |-> T_c3, target |-> T_normal, output |-> T_normal],
      [inputs |-> T_many, target |-> T_abnormal, output |-> T_c3],
      [inputs |-> T_abnormal, target |-> T_c3],
      [inputs |-> T_abnormal, target |-> T_punct],
      [inputs |-> T_question, target |-> T_blank],
      [inputs |-> T_question2, target |-> T_empty, output |-> T_empty],
      [inputs |-> T_abnormal],
      [target |-> T_normal, output |-> T_normal],
      [input |-> T_question, target |-> T_abnormal] }

Files == UNION {[1..n -> RecordPool] : n \in 0..MaxSamples}

Scripts == {"dashboard", "view_results", "compare_results", "simple_metrics"}

\* extract_medical_terms is also called on its own, on a text made of at most
\* MaxPhrases of these phrases separated by single spaces
Phrases ==
    << <<"R","i","g","h","t"," ","l","o","w","e","r"," ","l","o","b","e">>,
       <<"c","o","n","s","o","l","i","d","a","t","i","o","n",",">>,
       <<"n","o"," ","p","n","e","u","m","o","t","h","o","r","a","x">>,
       <<"N","o"," ","a","c","u","t","e">>,
       <<"C","H","E","S","T"," ","c","l","e","a","r">>,
       <<"a","b","n","o","r","m","a","l","i","t","y">> >>

RECURSIVE join(_)
\* ' '.join(list)
join(list) ==
    IF list = <<>> THEN <<>>
    ELSE IF Len(list) = 1 THEN Head(list)
    ELSE Head(list) \o <<" ">> \o join(Tail(list))

Texts == {join(list) : list \in UNION {[1..n -> {Phrases[k] : k \in 1..Len(Phrases)}] : n \in 0..MaxPhrases}}

NoTerms == [none |-> TRUE]

\* the keyboard answers to "Choose a dataset (1-3): "
Choices == {"1", "2", "3", "x"}

(***************************************************************************)
(* setup_project.py: the texts and directories of a setup run.             *)
(***************************************************************************)
\* the placeholder line of src/constants.py
old_line ==
    <<"D","I","R","_","P","R","O","J","E","C","T"," ","="," ","\"","/","y","o","u","r","/","p",
      "r","o","j","e","c","t","/","d","i","r","e","c","t","o","r","y","/","h","e","r","e","/",
      "\"">>

\* f'DIR_PROJECT = r"{project_dir}"'
new_line(dir) ==
    <<"D","I","R","_","P","R","O","J","E","C","T"," ","="," ","r","\"">> \o dir \o <<"\"">>

\* the directory of setup_project.py
current_dir ==
    <<"/","h","o","m","e","/","u","/","c","l","i","n","-","s","u","m","m">>

\* os.path.dirname(path): the path up to its last separator
dirname(path) ==
    LET seps == {k \in 1..Len(path) : path[k] = "/"}
    IN  IF seps = {} THEN <<>>
        ELSE SubSeq(path, 1, (CHOOSE k \in seps : \A j \in seps : j <= k) - 1)

\* os.path.join(os.path.dirname(current_dir), "clin-summ-data")
default_project_dir ==
    dirname(current_dir) \o <<"/">> \o <<"c","l","i","n","-","s","u","m","m","-","d","a","t","a">>

\* the answers to "Press Enter to use default, or enter a different path: ":
\* Enter alone, a path, the same path with blanks around it, and a relative
\* path that spells the placeholder line
UserInputs ==
    { <<>>,
      <<"/","s","r","v","/","a">>,
      <<" ","/","s","r","v","/","a"," ">>,
      old_line }

ProjectDirs ==
    { default_project_dir, <<"/","s","r","v","/","a">>, old_line }

\* src/constants.py as shipped, and as edited by hand before the first run
ConstantsFiles ==
    { <<"i","m","p","o","r","t"," ","o","s","\n">> \o old_line \o <<"\n">>,
      <<"i","m","p","o","r","t"," ","o","s","\n">> \o new_line(<<"/","s","r","v","/","o","l","d">>) \o <<"\n">> }

NoStats == [none |-> TRUE]

\* one printed line or table row: what it shows and the value it formats
Line(text, value) == [line |-> text, value |-> value]

VARIABLES
    script,        \* the script that is run, or the function that is called on its own
    HAS_RICH,      \* whether the rich library could be imported
    exists,        \* whether the file the script reads exists
    file,          \* the records of that file
    pc,            \* the position of the run
    dataset_code,  \* the dataset chosen at the menu
    samples,       \* the records loaded from the file
    stats,         \* the report returned by an analyze_* function
    out,           \* the lines printed so far
    raised,        \* the exception that left the script, or "none"
    metrics,       \* simple_metrics: the names stored in the metrics dict, in order
    attempted,     \* simple_metrics: the metric computations entered, in order
    failed,        \* simple_metrics: the metric computations that raised
    text_arg,      \* extract_medical_terms: the text it is called with
    found,         \* extract_medical_terms: the dict it returned
    constants,     \* setup_project: the content of src/constants.py
    data_src,      \* setup_project: whether the repository has a data directory
    data,          \* setup_project: what the data directory of each project directory holds
    project_dir,   \* setup_project: the project directory of the current run
    runs,          \* setup_project: the number of runs started
    configured     \* setup_project: the directory of the first run that replaced the placeholder

vars == <<script, HAS_RICH, exists, file, pc, dataset_code, samples, stats, out,
          raised, metrics, attempted, failed, text_arg, found,
          constants, data_src, data, project_dir, runs, configured>>

\* the state of setup_project, which no other script touches
setup_vars == <<constants, data_src, data, project_dir, runs, configured>>

\* the state of the reporting scripts, which setup_project does not touch
report_vars == <<dataset_code, samples, stats, raised, metrics, attempted, failed, found>>

\* what a run never changes: its configuration and its inputs
env == <<script, HAS_RICH, exists, file, text_arg>>

Init ==
    /\ script \in Scripts \cup {"extract_medical_terms", "setup_project"}
    /\ HAS_RICH \in (IF script \in {"dashboard", "compare_results"} THEN BOOLEAN ELSE {FALSE})
    /\ exists \in (IF script \in Scripts THEN BOOLEAN ELSE {FALSE})
    /\ file \in (IF exists THEN Files ELSE {<<>>})
    /\ text_arg \in (IF script = "extract_medical_terms" THEN Texts ELSE {<<>>})
    /\ found = NoTerms
    /\ constants \in (IF script = "setup_project" THEN ConstantsFiles ELSE {<<>>})
    /\ data_src \in (IF script = "setup_project" THEN BOOLEAN ELSE {FALSE})
    /\ data \in (IF script = "setup_project"
                 THEN [ProjectDirs -> {"none", "other"}]
                 ELSE {[d \in ProjectDirs |-> "none"]})
    /\ project_dir = <<>>
    /\ runs = 0
    /\ configured = <<>>
    /\ pc = "main"
    /\ dataset_code = ""
    /\ samples = <<>>
    /\ stats = NoStats
    /\ out = <<>>
    /\ raised = "none"
    /\ metrics = <<>>
    /\ attempted = <<>>
    /\ failed = {}

(***************************************************************************)
(* dashboard.py: main, print_with_rich, print_simple                       *)
(***************************************************************************)
\* extract_medical_terms(text), called on its own
call_extract_medical_terms ==
    /\ script = "extract_medical_terms"
    /\ pc = "main"
    /\ found' = extract_medical_terms(text_arg)
    /\ pc' = "done"
    /\ UNCHANGED <<env, setup_vars, dataset_code, samples, stats, out, raised, metrics, attempted, failed>>

dashboard_datasets == ("1" :> "opi") @@ ("2" :> "chq") @@ ("3" :> "d2n")

dashboard_main ==
    /\ script = "dashboard"
    /\ pc = "main"
    /\ \E choice \in Choices :
         IF choice \notin DOMAIN dashboard_datasets
         THEN /\ out' = Append(out, Line("Invalid choice!", choice))
              /\ pc' = "done"
              /\ UNCHANGED dataset_code
         ELSE /\ dataset_code' = dashboard_datasets[choice]
              /\ IF ~exists
                 THEN /\ out' = Append(out, Line("Error: not found!", choice))
                      /\ pc' = "done"
                 ELSE /\ out' = out
                      /\ pc' = "print"
    /\ UNCHANGED <<env, setup_vars, samples, stats, raised, metrics, attempted, failed, found>>

\* the rows of a frequency table, each count with its share of the total
table_rows(title, freq, total) ==
    [k \in 1..Len(freq) |->
        Line(title, [term |-> freq[k][1], count |-> freq[k][2],
                     pct |-> TrueDiv(freq[k][2], total)])]

\* The statistics block for the radiology dataset: the lines it prints and
\* the exception that ends it.  print_with_rich adds the rows to a table that
\* is printed once complete (atomic = TRUE), print_simple prints line by line.
radiology_block(st, atomic) ==
    LET head  == << Line("Total Reports", st.total),
                    Line("Normal Findings", st.normal),
                    Line("Abnormal Findings", st.abnormal),
                    Line("Avg Finding Length", st.avg_finding_len),
                    Line("Avg Impression Length", st.avg_impression_len) >>
        ratio == FloatDiv(st.avg_finding_len, st.avg_impression_len)
    IN  IF ~ratio.ok
        THEN [raised |-> "ZeroDivisionError", lines |-> IF atomic THEN <<>> ELSE head]
        ELSE [raised |-> "none",
              lines  |-> head \o << Line("Compression Ratio", ratio) >>
                         \o table_rows("Condition", slice(st.conditions, 5), st.total)
                         \o table_rows("Anatomy", slice(st.anatomy, 5), st.total)]

\* The statistics block for the health question dataset.
questions_block(st, atomic) ==
    LET head  == << Line("Total Questions", st.total),
                    Line("Avg Question Length", st.avg_question_len),
                    Line("Avg Summary Length", st.avg_summary_len) >>
        ratio == FloatDiv(st.avg_question_len, st.avg_summary_len)
    IN  IF ~ratio.ok
        THEN [raised |-> "ZeroDivisionError", lines |-> IF atomic THEN <<>> ELSE head]
        ELSE [raised |-> "none",
              lines  |-> head \o << Line("Compression Ratio", ratio) >>
                         \o table_rows("Topic", st.topics, st.total)]

\* Loading the file and the statistics section of print_with_rich (atomic) and
\* of print_simple.
print_statistics(atomic) ==
    /\ samples' = file
    /\ IF dataset_code \in {"opi", "chq"}
       THEN \E r \in {IF dataset_code = "opi"
                       THEN analyze_radiology_reports(file)
                       ELSE analyze_health_questions(file)} :
              IF r.raised # "none"
              THEN /\ raised' = r.raised
                   /\ pc' = "raised"
                   /\ UNCHANGED <<stats, out>>
              ELSE \E b \in {IF dataset_code = "opi"
                              THEN radiology_block(r.value, atomic)
                              ELSE questions_block(r.value, atomic)} :
                     /\ stats' = r.value
                     /\ out' = out \o b.lines
                     /\ raised' = b.raised
                     /\ pc' = IF b.raised # "none" THEN "raised" ELSE "samples"
       ELSE /\ pc' = "samples"
            /\ UNCHANGED <<stats, out, raised>>
    /\ UNCHANGED <<env, setup_vars, dataset_code, metrics, attempted, failed, found>>

\* The sample reports section: the first three records, a missing field shown
\* as N/A.
print_samples ==
    /\ out' = out \o [i \in 1..Len(slice(samples, 3)) |->
                        Line("Sample", [i |-> i,
                                        input  |-> "inputs" \in DOMAIN samples[i],
                                        target |-> "target" \in DOMAIN samples[i]])]
    /\ pc' = "complete"
    /\ UNCHANGED <<env, setup_vars, dataset_code, samples, stats, raised, metrics, attempted, failed, found>>

print_with_rich ==
    /\ script = "dashboard" /\ HAS_RICH /\ pc = "print"
    /\ print_statistics(TRUE)

print_with_rich_samples ==
    /\ script = "dashboard" /\ HAS_RICH /\ pc = "samples"
    /\ print_samples

print_simple ==
    /\ script = "dashboard" /\ ~HAS_RICH /\ pc = "print"
    /\ print_statistics(FALSE)

print_simple_samples ==
    /\ script = "dashboard" /\ ~HAS_RICH /\ pc = "samples"
    /\ print_samples

dashboard_complete ==
    /\ script = "dashboard"
    /\ pc = "complete"
    /\ out' = Append(out, Line("Dashboard complete!", 0))
    /\ pc' = "done"
    /\ UNCHANGED <<env, setup_vars, dataset_code, samples, stats, raised, metrics, attempted, failed, found>>

(***************************************************************************)
(* view_results.py: main                                                   *)
(***************************************************************************)
view_results_datasets == ("1" :> "opi") @@ ("2" :> "d2n") @@ ("3" :> "chq")

view_results_main ==
    /\ script = "view_results"
    /\ pc = "main"
    /\ \E choice \in Choices :
         IF choice \notin DOMAIN view_results_datasets
         THEN /\ out' = Append(out, Line("Invalid choice!", choice))
              /\ pc' = "done"
              /\ UNCHANGED dataset_code
         ELSE /\ dataset_code' = view_results_datasets[choice]
              /\ IF ~exists
                 THEN /\ out' = Append(out, Line("Error: not found!", choice))
                      /\ pc' = "done"
                 ELSE /\ out' = Append(out, Line("Dataset", choice))
                      /\ pc' = "show"
    /\ UNCHANGED <<env, setup_vars, samples, stats, raised, metrics, attempted, failed, found>>

\* sample.get('inputs', sample.get('input', default))
input_of(sample, default) == get(sample, "inputs", get(sample, "input", default))

\* Loading the file and showing its first five records.
view_results_show ==
    /\ script = "view_results"
    /\ pc = "show"
    /\ samples' = file
    /\ out' = out \o << Line("Total samples", Len(file)) >>
                  \o [i \in 1..Len(slice(file, 5)) |->
                        Line("Sample", [i |-> i,
                                        input  |-> DOMAIN file[i] \cap {"inputs", "input"} # {},
                                        target |-> "target" \in DOMAIN file[i]])]
    /\ pc' = "statistics"
    /\ UNCHANGED <<env, setup_vars, dataset_code, stats, raised, metrics, attempted, failed, found>>

\* The Basic Statistics section: the lines it prints and the exception that
\* ends it.
view_results_block(list) ==
    LET input_lengths  == [i \in 1..Len(list) |-> Len(split(input_of(list[i], <<>>)))]
        target_lengths == [i \in 1..Len(list) |-> Len(split(get(list[i], "target", <<>>)))]
        avg_input      == TrueDiv(sum(input_lengths), Len(input_lengths))
        avg_target     == TrueDiv(sum(target_lengths), Len(target_lengths))
        head           == << Line("Total Samples", Len(list)) >>
    IN  IF ~avg_input.ok \/ ~avg_target.ok
        THEN [raised |-> "ZeroDivisionError", lines |-> head]
        ELSE [raised |-> "none",
              lines  |-> head \o << Line("Average Input Length", avg_input),
                                   Line("Average Summary Length", avg_target),
                                   IF sum(target_lengths) > 0
                                   THEN Line("Compression Ratio",
                                             TrueDiv(sum(input_lengths), sum(target_lengths)))
                                   ELSE Line("Compression Ratio: N/A", 0) >>]

view_results_statistics ==
    /\ script = "view_results"
    /\ pc = "statistics"
    /\ \E b \in {view_results_block(samples)} :
         /\ out' = out \o b.lines
         /\ raised' = b.raised
         /\ pc' = IF b.raised # "none" THEN "raised" ELSE "done"
    /\ UNCHANGED <<env, setup_vars, dataset_code, samples, stats, metrics, attempted, failed, found>>

(***************************************************************************)
(* compare_results.py: compare_summaries                                   *)
(***************************************************************************)
RECURSIVE lstrip(_, _)
lstrip(text, chars) ==
    IF text # <<>> /\ Head(text) \in chars THEN lstrip(Tail(text), chars) ELSE text

RECURSIVE rstrip(_, _)
rstrip(text, chars) ==
    IF text # <<>> /\ text[Len(text)] \in chars
    THEN rstrip(SubSeq(text, 1, Len(text) - 1), chars)
    ELSE text

\* as strip, but removing the characters only from the end (str.rstrip)
strip_trailing_only(text, chars) == rstrip(text, chars)

\* str.strip(chars): the characters of `chars` are removed from both ends
strip(text, chars) == rstrip(lstrip(text, chars), chars)

\* as max, but without the floor: the divisor is the target word count itself
max_unguarded(a, b) == a

max(a, b) == IF a >= b THEN a ELSE b

\* The metrics compare_summaries computes for one record.
report_metrics(sample) ==
    LET findings         == get(sample, "inputs", <<>>)
        impression       == get(sample, "target", <<>>)
        finding_words    == split(findings)
        impression_words == split(impression)
        findings_lower   == lower(findings)
        word_clean(word) == strip(lower(word), {".", ",", ";", ":"})
    IN  [finding_words    |-> Len(finding_words),
         impression_words |-> Len(impression_words),
         compression      |-> TrueDiv(Len(finding_words), max(Len(impression_words), 1)),
         key_terms        |-> SelectSeq(impression_words,
                                  LAMBDA word : /\ contains(word_clean(word), findings_lower)
                                                /\ Len(word_clean(word)) > 3)]

\* Opening the file and printing the title; there is no existence check.
compare_summaries_load ==
    /\ script = "compare_results"
    /\ pc = "main"
    /\ IF ~exists
       THEN /\ raised' = "FileNotFoundError"
            /\ pc' = "raised"
            /\ UNCHANGED <<samples, out>>
       ELSE /\ samples' = file
            /\ out' = Append(out, Line("Comparison View", HAS_RICH))
            /\ pc' = "reports"
            /\ UNCHANGED raised
    /\ UNCHANGED <<env, setup_vars, dataset_code, stats, metrics, attempted, failed, found>>

\* The detailed comparison of the first five records.
compare_summaries_reports ==
    /\ script = "compare_results"
    /\ pc = "reports"
    /\ \E rows \in {[i \in 1..Len(slice(samples, 5)) |-> report_metrics(samples[i])]} :
         IF \E i \in 1..Len(rows) : ~rows[i].compression.ok
         THEN /\ LET bad == CHOOSE i \in 1..Len(rows) :
                               /\ ~rows[i].compression.ok
                               /\ \A j \in 1..(i - 1) : rows[j].compression.ok
                 IN  out' = out \o [i \in 1..(bad - 1) |-> Line("Report", rows[i])]
              /\ raised' = "ZeroDivisionError"
              /\ pc' = "raised"
         ELSE /\ out' = out \o [i \in 1..Len(rows) |-> Line("Report", rows[i])]
              /\ pc' = "summary"
              /\ UNCHANGED raised
    /\ UNCHANGED <<env, setup_vars, dataset_code, samples, stats, metrics, attempted, failed, found>>

\* The Overall Statistics section: the lines it prints and the exception that
\* ends it.
compare_summaries_block(list) ==
    LET total_finding_words ==
            sum([i \in 1..Len(list) |-> Len(split(get(list[i], "inputs", <<>>)))])
        total_impression_words ==
            sum([i \in 1..Len(list) |-> Len(split(get(list[i], "target", <<>>)))])
        avg_compression == TrueDiv(total_finding_words, total_impression_words)
        avg_finding     == TrueDiv(total_finding_words, Len(list))
        avg_impression  == TrueDiv(total_impression_words, Len(list))
    IN  IF ~avg_compression.ok \/ ~avg_finding.ok \/ ~avg_impression.ok
        THEN [raised |-> "ZeroDivisionError", lines |-> <<>>]
        ELSE [raised |-> "none",
              lines  |-> << Line("Total reports", Len(list)),
                            Line("Average compression", avg_compression),
                            Line("Average finding", avg_finding),
                            Line("Average impression", avg_impression) >>]

compare_summaries_summary ==
    /\ script = "compare_results"
    /\ pc = "summary"
    /\ \E b \in {compare_summaries_block(samples)} :
         /\ out' = out \o b.lines
         /\ raised' = b.raised
         /\ pc' = IF b.raised # "none" THEN "raised" ELSE "done"
    /\ UNCHANGED <<env, setup_vars, dataset_code, samples, stats, metrics, attempted, failed, found>>

(***************************************************************************)
(* simple_metrics.py: main, calculate_metrics_from_file.  The scorers are  *)
(* external libraries: whether one raises is the environment's choice, and *)
(* the score it returns is not modelled.                                   *)
(***************************************************************************)
\* the keys each computation stores in the metrics dict
MetricNames ==
    [BLEU      |-> <<"BLEU">>,
     ROUGE     |-> <<"ROUGE-1", "ROUGE-2", "ROUGE-L">>,
     BERTScore |-> <<"BERTScore">>]

simple_metrics_main ==
    /\ script = "simple_metrics"
    /\ pc = "main"
    /\ IF ~exists
       THEN /\ out' = out \o << Line("Error: File not found", 0), Line("Usage", 0) >>
            /\ pc' = "done"
       ELSE /\ pc' = "load"
            /\ UNCHANGED out
    /\ UNCHANGED <<env, setup_vars, dataset_code, samples, stats, raised, metrics, attempted, failed, found>>

\* Loading the file and extracting references and predictions: item['target']
\* and item['output'] raise KeyError on a record without the key.
calculate_metrics_load ==
    /\ script = "simple_metrics"
    /\ pc = "load"
    /\ samples' = file
    /\ IF \E i \in 1..Len(file) : {"target", "output"} \ DOMAIN file[i] # {}
       THEN /\ out' = out \o << Line("Loading results", 0), Line("Found samples", Len(file)) >>
            /\ raised' = "KeyError"
            /\ pc' = "raised"
       ELSE /\ out' = out \o << Line("Loading results", 0), Line("Found samples", Len(file)),
                                Line("Calculating metrics...", 0) >>
            /\ pc' = "bleu"
            /\ UNCHANGED raised
    /\ UNCHANGED <<env, setup_vars, dataset_code, stats, metrics, attempted, failed, found>>

\* as try_metric, but without the except clause: the exception leaves the
\* function
try_metric_uncaught(name, raises, next) ==
    /\ attempted' = Append(attempted, name)
    /\ IF raises
       THEN /\ raised' = "Exception"
            /\ pc' = "raised"
            /\ UNCHANGED <<metrics, out, failed>>
       ELSE /\ metrics' = metrics \o MetricNames[name]
            /\ out' = out \o [k \in 1..Len(MetricNames[name]) |->
                                Line("score", MetricNames[name][k])]
            /\ pc' = next
            /\ UNCHANGED <<failed, raised>>
    /\ UNCHANGED <<env, setup_vars, dataset_code, samples, stats, found>>

\* One try/except block: the names are stored and printed when the
\* computation succeeds, the failure is printed when it raises.
try_metric(name, raises, next) ==
    /\ attempted' = Append(attempted, name)
    /\ IF raises
       THEN /\ failed' = failed \cup {name}
            /\ out' = Append(out, Line("calculation failed", name))
            /\ UNCHANGED metrics
       ELSE /\ metrics' = metrics \o MetricNames[name]
            /\ out' = out \o [k \in 1..Len(MetricNames[name]) |->
                                Line("score", MetricNames[name][k])]
            /\ UNCHANGED failed
    /\ pc' = next
    /\ UNCHANGED <<env, setup_vars, dataset_code, samples, stats, raised, found>>

calculate_bleu ==
    /\ script = "simple_metrics"
    /\ pc = "bleu"
    /\ \E raises \in BOOLEAN : try_metric("BLEU", raises, "rouge")

\* The means divide by the number of pairs, so ROUGE also fails on an empty
\* file.
calculate_rouge ==
    /\ script = "simple_metrics"
    /\ pc = "rouge"
    /\ \E raises \in BOOLEAN :
         try_metric("ROUGE", raises \/ ~TrueDiv(0, Len(samples)).ok, "bertscore")

calculate_bertscore ==
    /\ script = "simple_metrics"
    /\ pc = "bertscore"
    /\ \E raises \in BOOLEAN : try_metric("BERTScore", raises, "summary")

\* The METRICS SUMMARY block of main: one line per stored metric.
simple_metrics_summary ==
    /\ script = "simple_metrics"
    /\ pc = "summary"
    /\ out' = out \o << Line("METRICS SUMMARY", 0) >>
                  \o [k \in 1..Len(metrics) |-> Line("summary", metrics[k])]
    /\ pc' = "done"
    /\ UNCHANGED <<env, setup_vars, dataset_code, samples, stats, raised, metrics, attempted, failed, found>>

(***************************************************************************)
(* setup_project.py: setup_project.  The script can be run again after a   *)
(* run has finished.                                                       *)
(***************************************************************************)
RECURSIVE str_replace(_, _, _)
\* str.replace(old, new): every non-overlapping occurrence, left to right
str_replace(content, old, new) ==
    IF Len(content) < Len(old) THEN content
    ELSE IF SubSeq(content, 1, Len(old)) = old
         THEN new \o str_replace(SubSeq(content, Len(old) + 1, Len(content)), old, new)
         ELSE <<Head(content)>> \o str_replace(Tail(content), old, new)

\* the content of constants.py after the update step: the placeholder line
\* replaced when it is found, the file left alone otherwise
update_constants(content, dir) ==
    IF contains(old_line, content)
    THEN str_replace(content, old_line, new_line(dir))
    ELSE content

\* The prompt and the creation of the project directory.
setup_project_prompt ==
    /\ script = "setup_project"
    /\ pc \in {"main", "done"}
    /\ runs < MaxRuns
    /\ \E user_input \in UserInputs :
         project_dir' = IF strip(user_input, Whitespace) # <<>>
                        THEN strip(user_input, Whitespace)
                        ELSE default_project_dir
    /\ runs' = runs + 1
    /\ out' = Append(out, Line("Created project directory", runs + 1))
    /\ pc' = "copy"
    /\ UNCHANGED <<env, report_vars, constants, data_src, data, configured>>

\* The data is copied unless the destination exists.
setup_project_copy ==
    /\ script = "setup_project"
    /\ pc = "copy"
    /\ IF data_src /\ data[project_dir] = "none"
       THEN /\ data' = [data EXCEPT ![project_dir] = "repo"]
            /\ out' = Append(out, Line("Data copied successfully!", runs))
       ELSE /\ IF data[project_dir] # "none"
               THEN out' = Append(out, Line("Data already exists", runs))
               ELSE out' = out
            /\ UNCHANGED data
    /\ pc' = "constants"
    /\ UNCHANGED <<env, report_vars, constants, data_src, project_dir, runs, configured>>

\* The update of src/constants.py.
setup_project_constants ==
    /\ script = "setup_project"
    /\ pc = "constants"
    /\ constants' = update_constants(constants, project_dir)
    /\ IF contains(old_line, constants)
       THEN /\ out' = Append(out, Line("Updated src/constants.py", runs))
            /\ configured' = IF configured = <<>> THEN project_dir ELSE configured
       ELSE /\ out' = Append(out, Line("Could not automatically update constants.py", runs))
            /\ UNCHANGED configured
    /\ pc' = "done"
    /\ UNCHANGED <<env, report_vars, data_src, data, project_dir, runs>>

Next ==
    \/ call_extract_medical_terms
    \/ dashboard_main
    \/ print_with_rich
    \/ print_with_rich_samples
    \/ print_simple
    \/ print_simple_samples
    \/ dashboard_complete
    \/ view_results_main
    \/ view_results_show
    \/ view_results_statistics
    \/ compare_summaries_load
    \/ compare_summaries_reports
    \/ compare_summaries_summary
    \/ simple_metrics_main
    \/ calculate_metrics_load
    \/ calculate_bleu
    \/ calculate_rouge
    \/ calculate_bertscore
    \/ simple_metrics_summary
    \/ setup_project_prompt
    \/ setup_project_copy
    \/ setup_project_constants

Spec == Init /\ [][Next]_vars

(***************************************************************************)
(* Notions the properties are stated with.                                 *)
(***************************************************************************)
HasReport == "total" \in DOMAIN stats

ZeroWordTarget(sample) == Len(split(get(sample, "target", <<>>))) = 0

Malformed(sample) ==
    \/ DOMAIN sample \cap {"inputs", "input"} = {}
    \/ "target" \notin DOMAIN sample

Range(list) == {list[k] : k \in 1..Len(list)}

LinesOf(kind) == SelectSeq(out, LAMBDA l : l.line = kind)

MetricOrder == <<"BLEU", "ROUGE", "BERTScore">>

(***************************************************************************)
(* C1: for every collection, the empty one included, the report builders   *)
(* analyze_radiology_reports and analyze_health_questions do not raise: a  *)
(* dashboard run that ended with an exception had its report built.        *)
(* The code divides by len(all_findings) and raises on the empty file.     *)
(***************************************************************************)
C1_BuildersNeverRaise ==
    (script = "dashboard" /\ pc = "raised") => HasReport

(***************************************************************************)
(* C2: on a non-empty collection whose targets all have zero words, no     *)
(* reporting path raises while computing and rendering the dataset-level   *)
(* compression ratio.  print_with_rich, print_simple and compare_summaries *)
(* divide by the zero mean / total; only view_results guards it.           *)
(***************************************************************************)
C2_ZeroWordTargetsRender ==
    ( /\ script \in {"dashboard", "view_results", "compare_results"}
      /\ Len(samples) > 0
      /\ \A i \in 1..Len(samples) : ZeroWordTarget(samples[i]) )
    => raised = "none"

(***************************************************************************)
(* C3 as stated: extract_medical_terms on "Right lower lobe consolidation, *)
(* no pneumothorax" returns anatomy = [right, lower, lobe].                *)
(***************************************************************************)
C3_TermsOfExample_Original ==
    (script = "extract_medical_terms" /\ pc = "done" /\ text_arg = T_c3)
    => found = [conditions |-> << <<"c","o","n","s","o","l","i","d","a","t","i","o","n">>, <<"p","n","e","u","m","o","t","h","o","r","a","x">> >>,
                anatomy    |-> << <<"r","i","g","h","t">>, <<"l","o","w","e","r">>, <<"l","o","b","e">> >>,
                status     |-> << >>]

(***************************************************************************)
(* C3 amended: on that text extract_medical_terms returns conditions =     *)
(* [consolidation, pneumothorax], anatomy = [thorax, right, lower, lobe]   *)
(* and status = []: "thorax" is a substring of "pneumothorax".             *)
(***************************************************************************)
C3_TermsOfExample ==
    (script = "extract_medical_terms" /\ pc = "done" /\ text_arg = T_c3)
    => found = [conditions |-> << <<"c","o","n","s","o","l","i","d","a","t","i","o","n">>, <<"p","n","e","u","m","o","t","h","o","r","a","x">> >>,
                anatomy    |-> << <<"t","h","o","r","a","x">>, <<"r","i","g","h","t">>, <<"l","o","w","e","r">>, <<"l","o","b","e">> >>,
                status     |-> << >>]

C3_Witness ==
    script = "extract_medical_terms" /\ pc = "done" /\ text_arg = T_c3

(***************************************************************************)
(* C4: a record without `inputs`/`input` or without `target` makes the     *)
(* report generation fail: no report is built from a file with such a      *)
(* record and the run does not complete.  The code reads the fields with   *)
(* .get(key, '') and counts the missing text as zero words.                *)
(***************************************************************************)
C4_MalformedRecordFails ==
    ( /\ script \in {"dashboard", "compare_results"}
      /\ \E i \in 1..Len(samples) : Malformed(samples[i]) )
    => /\ ~HasReport
       /\ LinesOf("Report") = <<>>
       /\ pc # "done"

(***************************************************************************)
(* C5: in calculate_metrics_from_file the three metric computations are    *)
(* attempted in the order BLEU, ROUGE, BERTScore whichever of them raise,  *)
(* every computation that did not raise has its names in the metrics, and  *)
(* no exception leaves the function once the first computation is entered. *)
(***************************************************************************)
C5_MetricsIndependent ==
    script = "simple_metrics" =>
        /\ attempted = SubSeq(MetricOrder, 1, Len(attempted))
        /\ (pc \in {"summary", "done"} /\ exists) => attempted = MetricOrder
        /\ \A k \in 1..Len(attempted) :
              attempted[k] \notin failed => Range(MetricNames[attempted[k]]) \subseteq Range(metrics)
        /\ \A k \in 1..Len(attempted) :
              attempted[k] \in failed => Range(MetricNames[attempted[k]]) \cap Range(metrics) = {}
        /\ raised # "none" => attempted = <<>>

C5_Witness ==
    /\ script = "simple_metrics"
    /\ pc = "summary"
    /\ failed = {"BLEU", "BERTScore"}
    /\ metrics = MetricNames["ROUGE"]

(***************************************************************************)
(* C6: the METRICS SUMMARY names every metric that failed: each name of a  *)
(* failed computation occurs in a line printed after the summary header.   *)
(* main prints only the entries of the metrics dict.                       *)
(***************************************************************************)
C6_SummaryListsAbsent ==
    (script = "simple_metrics" /\ pc = "done" /\ exists)
    => \A m \in failed : \A k \in 1..Len(MetricNames[m]) :
          \E l \in 1..Len(out) :
              /\ \E h \in 1..(l - 1) : out[h].line = "METRICS SUMMARY"
              /\ out[l].value = MetricNames[m][k]

(***************************************************************************)
(* C7: when the input file does not exist, no exception leaves the script  *)
(* and a finished run has printed a message.  compare_summaries opens the  *)
(* file without an existence check.                                        *)
(***************************************************************************)
C7_MissingFileReported ==
    (script \in Scripts /\ ~exists)
    => /\ raised = "none"
       /\ pc = "done" => out # <<>>

(***************************************************************************)
(* C8: the report returned by analyze_radiology_reports and by             *)
(* analyze_health_questions for a collection of N records has total = N.   *)
(***************************************************************************)
C8_TotalIsN ==
    (script = "dashboard" /\ HasReport) => stats.total = Len(file)

C8_Witness ==
    /\ script = "dashboard"
    /\ dataset_code = "chq"
    /\ HasReport
    /\ Len(file) = 2
    /\ stats.topics = <<>>

(***************************************************************************)
(* C9: compare_summaries computes a compression ratio for each of the      *)
(* first five records, and for a record whose target has zero words the    *)
(* ratio equals the number of words of its input.                          *)
(***************************************************************************)
C9_ZeroWordTargetRatio ==
    (script = "compare_results" /\ exists /\ pc \notin {"main", "reports"})
    => /\ Len(LinesOf("Report")) = Len(slice(samples, 5))
       /\ \A i \in 1..Len(LinesOf("Report")) :
             ZeroWordTarget(samples[i]) =>
                LET ratio == LinesOf("Report")[i].value.compression
                IN  /\ ratio.ok
                    /\ ratio.num = Len(split(get(samples[i], "inputs", <<>>))) * ratio.den

C9_Witness ==
    /\ script = "compare_results"
    /\ pc = "summary"
    /\ \E i \in 1..Len(LinesOf("Report")) :
          /\ ZeroWordTarget(samples[i])
          /\ LinesOf("Report")[i].value.compression = Quotient(5, 1)


(***************************************************************************)
(* C10: for every non-empty collection, each frequency table cut to its    *)
(* top N (10 for conditions and anatomy, 5 for status and topics, 5 for    *)
(* the rendered condition and anatomy rows) has at most N entries, in      *)
(* descending count, entries of equal count in the order in which the      *)
(* terms were first met while scanning the samples.                        *)
(***************************************************************************)
\* the lowercased text of record i that the radiology terms are searched in
ScannedText(i) ==
    lower(get(file[i], "inputs", <<>>) \o <<" ">> \o get(file[i], "target", <<>>))

IndexIn(list, x) == CHOOSE k \in 1..Len(list) : list[k] = x

\* the first record a vocabulary term occurs in
FirstRecord(term) ==
    CHOOSE i \in 1..Len(file) :
        /\ contains(term, ScannedText(i))
        /\ \A j \in 1..(i - 1) : ~contains(term, ScannedText(j))

\* term a is met before term b: in an earlier record, or in the same record
\* and earlier in the vocabulary the record is matched against
MetBefore(vocab, a, b) ==
    \/ FirstRecord(a) < FirstRecord(b)
    \/ FirstRecord(a) = FirstRecord(b) /\ IndexIn(vocab, a) < IndexIn(vocab, b)

TopicOrder == <<"Medication", "Pain", "Treatment", "Side Effects", "Diagnosis">>

TopicWords ==
    <<MedicationWords, PainWords, TreatmentWords, SideEffectWords, DiagnosisWords>>

\* the first record whose question is tagged with the topic
FirstQuestion(topic) ==
    LET tagged(i) == any_in(TopicWords[IndexIn(TopicOrder, topic)],
                            lower(get(file[i], "inputs", <<>>)))
    IN  CHOOSE i \in 1..Len(file) : tagged(i) /\ \A j \in 1..(i - 1) : ~tagged(j)

TopicMetBefore(a, b) ==
    \/ FirstQuestion(a) < FirstQuestion(b)
    \/ FirstQuestion(a) = FirstQuestion(b) /\ IndexIn(TopicOrder, a) < IndexIn(TopicOrder, b)

\* at most n entries, descending counts, ties in first-met order
IsTopN(table, n, Before(_, _)) ==
    /\ Len(table) <= n
    /\ \A k \in 1..(Len(table) - 1) :
          \/ table[k][2] > table[k + 1][2]
          \/ table[k][2] = table[k + 1][2] /\ Before(table[k][1], table[k + 1][1])

\* the rendered rows of one table, as (term, count) pairs
Rendered(kind) ==
    [k \in 1..Len(LinesOf(kind)) |-> <<LinesOf(kind)[k].value.term, LinesOf(kind)[k].value.count>>]

C10_TopNTables ==
    (script = "dashboard" /\ HasReport) =>
        IF dataset_code = "opi"
        THEN /\ IsTopN(stats.conditions, 10, LAMBDA a, b : MetBefore(conditions, a, b))
             /\ IsTopN(stats.anatomy, 10, LAMBDA a, b : MetBefore(anatomy, a, b))
             /\ IsTopN(stats.status, 5, LAMBDA a, b : MetBefore(status, a, b))
             /\ IsTopN(Rendered("Condition"), 5, LAMBDA a, b : MetBefore(conditions, a, b))
             /\ IsTopN(Rendered("Anatomy"), 5, LAMBDA a, b : MetBefore(anatomy, a, b))
        ELSE /\ IsTopN(stats.topics, 5, TopicMetBefore)
             /\ IsTopN(Rendered("Topic"), 5, TopicMetBefore)

\* a report whose anatomy table was cut from more than ten terms, holds a tie
\* that is not in vocabulary order, and was rendered
C10_Witness ==
    /\ script = "dashboard"
    /\ dataset_code = "opi"
    /\ HasReport
    /\ Cardinality({k \in 1..Len(anatomy) :
            \E i \in 1..Len(file) : contains(anatomy[k], ScannedText(i))}) > 10
    /\ Len(stats.anatomy) = 10
    /\ Len(LinesOf("Anatomy")) = 5
    /\ \E k \in 1..9 :
          /\ stats.anatomy[k][2] = stats.anatomy[k + 1][2]
          /\ IndexIn(anatomy, stats.anatomy[k][1]) > IndexIn(anatomy, stats.anatomy[k + 1][1])


(***************************************************************************)
(* C11: analyze_radiology_reports counts a sample as normal exactly when   *)
(* its lowercased target contains "no acute", "normal" or "negative", and  *)
(* as abnormal otherwise, so normal + abnormal = total; the target "No     *)
(* acute cardiopulmonary abnormality" counts as normal and "Right upper    *)
(* lobe mass suspicious for malignancy" as abnormal.                       *)
(***************************************************************************)
\* the text occurs in the lowercased target of record i
TargetHas(i, phrase) ==
    LET target == lower(get(file[i], "target", <<>>))
    IN  \E a \in 1..Len(target), b \in 1..Len(target) : SubSeq(target, a, b) = phrase

NormalRecords ==
    {i \in 1..Len(file) :
        \/ TargetHas(i, <<"n","o"," ","a","c","u","t","e">>)
        \/ TargetHas(i, <<"n","o","r","m","a","l">>)
        \/ TargetHas(i, <<"n","e","g","a","t","i","v","e">>)}

C11_NormalAbnormalSplit ==
    (script = "dashboard" /\ dataset_code = "opi" /\ HasReport) =>
        /\ stats.normal = Cardinality(NormalRecords)
        /\ stats.abnormal = Cardinality((1..Len(file)) \ NormalRecords)
        /\ stats.normal + stats.abnormal = stats.total
        /\ \A i \in 1..Len(file) :
              /\ ("target" \in DOMAIN file[i] /\ file[i].target = T_normal) => i \in NormalRecords
              /\ ("target" \in DOMAIN file[i] /\ file[i].target = T_abnormal) => i \notin NormalRecords

\* a report over one record of each of the two example targets
C11_Witness ==
    /\ script = "dashboard"
    /\ dataset_code = "opi"
    /\ HasReport
    /\ Len(file) = 2
    /\ "target" \in DOMAIN file[1] /\ file[1].target = T_normal
    /\ "target" \in DOMAIN file[2] /\ file[2].target = T_abnormal
    /\ stats.normal = 1
    /\ stats.abnormal = 1


(***************************************************************************)
(* Key terms of a record, counted from the definition of the property.     *)
(***************************************************************************)
Punctuation == {".", ",", ";", ":"}

\* the positions of a word that hold no punctuation character
Kept(word) == {k \in 1..Len(word) : word[k] \notin Punctuation}

Least(S) == CHOOSE k \in S : \A j \in S : k <= j

Greatest(S) == CHOOSE k \in S : \A j \in S : k >= j

\* the word without its trailing punctuation
WithoutTrailing(word) ==
    IF Kept(word) = {} THEN <<>> ELSE SubSeq(word, 1, Greatest(Kept(word)))

\* the word without its leading and trailing punctuation
WithoutLeadingAndTrailing(word) ==
    IF Kept(word) = {} THEN <<>> ELSE SubSeq(word, Least(Kept(word)), Greatest(Kept(word)))

Occurs(part, whole) ==
    \E a \in 1..Len(whole) : a + Len(part) - 1 <= Len(whole)
                             /\ SubSeq(whole, a, a + Len(part) - 1) = part

\* the number of target tokens of record i whose cleaned lowercase form is
\* longer than 3 and occurs in the lowercased findings
PreservedCount(i, Clean(_)) ==
    LET findings == lower(get(samples[i], "inputs", <<>>))
        tokens   == split(get(samples[i], "target", <<>>))
    IN  Cardinality({k \in 1..Len(tokens) :
            /\ Len(Clean(lower(tokens[k]))) > 3
            /\ Occurs(Clean(lower(tokens[k])), findings)})

(***************************************************************************)
(* C12 as stated: the key-term-preserved count of a pair is the number of  *)
(* target tokens whose form after stripping only trailing characters of    *)
(* .,;: and lowercasing is longer than 3 and occurs in the lowercased      *)
(* input.                                                                  *)
(***************************************************************************)
C12_KeyTerms_Original ==
    (script = "compare_results" /\ pc \in {"summary", "done"}) =>
        \A i \in 1..Len(LinesOf("Report")) :
            Len(LinesOf("Report")[i].value.key_terms) = PreservedCount(i, WithoutTrailing)

(***************************************************************************)
(* C12 amended: the count is the number of target tokens whose form after  *)
(* lowercasing and stripping leading and trailing characters of .,;: is    *)
(* longer than 3 and occurs in the lowercased input: str.strip works on    *)
(* both ends of the token.                                                 *)
(***************************************************************************)
C12_KeyTerms ==
    (script = "compare_results" /\ pc \in {"summary", "done"}) =>
        \A i \in 1..Len(LinesOf("Report")) :
            Len(LinesOf("Report")[i].value.key_terms)
                = PreservedCount(i, WithoutLeadingAndTrailing)

\* a compared pair with a token that is preserved only once its leading
\* punctuation is removed
C12_Witness ==
    /\ script = "compare_results"
    /\ pc = "summary"
    /\ \E i \in 1..Len(LinesOf("Report")) :
          /\ PreservedCount(i, WithoutLeadingAndTrailing) = 1
          /\ PreservedCount(i, WithoutTrailing) = 0
          /\ Len(LinesOf("Report")[i].value.key_terms) = 1


(***************************************************************************)
(* C13: for every text, each list returned by extract_medical_terms holds  *)
(* exactly the entries of its vocabulary that occur as substrings of the   *)
(* lowercased text, each at most once, in the order of the vocabulary.     *)
(***************************************************************************)
\* list holds exactly the entries of vocab that occur in the lowercased
\* argument, at strictly increasing vocabulary positions
ExactlyTheOccurring(list, vocab) ==
    /\ {list[k] : k \in 1..Len(list)}
          = {vocab[v] : v \in {v \in 1..Len(vocab) : Occurs(vocab[v], lower(text_arg))}}
    /\ \A k \in 1..(Len(list) - 1) : IndexIn(vocab, list[k]) < IndexIn(vocab, list[k + 1])

C13_TermsExactlyOccurring ==
    (script = "extract_medical_terms" /\ pc = "done") =>
        /\ ExactlyTheOccurring(found.conditions, conditions)
        /\ ExactlyTheOccurring(found.anatomy, anatomy)
        /\ ExactlyTheOccurring(found.status, status)

\* a text in capitals and with terms inside longer words, whose terms come
\* back in vocabulary order, not in text order
C13_Witness ==
    /\ script = "extract_medical_terms"
    /\ pc = "done"
    /\ text_arg = join(<<Phrases[6], Phrases[3], Phrases[5]>>)
    /\ found.conditions = << <<"p","n","e","u","m","o","t","h","o","r","a","x">> >>
    /\ found.anatomy = << <<"c","h","e","s","t">>, <<"t","h","o","r","a","x">> >>
    /\ found.status = << <<"n","o","r","m","a","l">>, <<"a","b","n","o","r","m","a","l">>, <<"c","l","e","a","r">> >>


(***************************************************************************)
(* C14: a record that carries its input text under `input` is treated by   *)
(* every reporting path as the same record with the text under `inputs`:   *)
(* the words of that text enter the mean input length of the dashboard     *)
(* report and of view_results, and the per-record word count and the mean  *)
(* of compare_summaries.  Only view_results reads the `input` key.         *)
(***************************************************************************)
\* the number of words of the input text of a record, under either key
InputWords(sample) ==
    Len(split(IF "inputs" \in DOMAIN sample THEN sample.inputs
              ELSE IF "input" \in DOMAIN sample THEN sample.input
              ELSE <<>>))

TotalInputWords == sum([i \in 1..Len(file) |-> InputWords(file[i])])

C14_InputKeyAlias ==
    /\ (script = "dashboard" /\ HasReport /\ dataset_code = "opi")
          => stats.avg_finding_len = Quotient(TotalInputWords, Len(file))
    /\ (script = "dashboard" /\ HasReport /\ dataset_code = "chq")
          => stats.avg_question_len = Quotient(TotalInputWords, Len(file))
    /\ (script = "view_results" /\ pc = "done")
          => \A k \in 1..Len(LinesOf("Average Input Length")) :
                LinesOf("Average Input Length")[k].value = Quotient(TotalInputWords, Len(file))
    /\ (script = "compare_results" /\ pc \in {"summary", "done"})
          => \A i \in 1..Len(LinesOf("Report")) :
                LinesOf("Report")[i].value.finding_words = InputWords(file[i])
    /\ (script = "compare_results" /\ pc = "done")
          => LinesOf("Average finding")[1].value = Quotient(TotalInputWords, Len(file))


(***************************************************************************)
(* C15: over any sequence of setup_project runs, constants.py is rewritten *)
(* only in a run that finds the placeholder line in it, an existing data   *)
(* destination directory is never copied over, and once one run has        *)
(* replaced the placeholder every later step leaves constants.py unchanged *)
(* whatever path the user enters.                                          *)
(***************************************************************************)
C15_SetupRunsFrame ==
    [][ /\ (constants' # constants => contains(old_line, constants))
        /\ \A d \in ProjectDirs : data[d] # "none" => data'[d] = data[d]
        /\ (configured # <<>> => constants' = constants) ]_vars

=============================================================================
